---------------------------- MODULE Spec2Model ----------------------------
(***************************************************************************)
(* Model of security/keys/trusted-keys/trusted_tpm2.c (Linux 6.12.10):     *)
(* the TPM2 key-blob codec (tpm2_key_encode / tpm2_key_decode) and the     *)
(* seal / load / unseal command flows with their session, buffer and       *)
(* chip-ownership bookkeeping.                                             *)
(*                                                                         *)
(* Byte buffers are sequences of 0..255.  C integers keep their width     *)
(* where the code depends on it (u16 arithmetic in tpm2_key_encode, the    *)
(* signed int blob_len of tpm2_seal_trusted).                              *)
(***************************************************************************)
EXTENDS Integers, Sequences, FiniteSets, TLC

(***************************************************************************)
(* Program constants.  The values are those of include/keys/trusted-type.h *)
(* include/linux/tpm.h and the errno headers; each is named at a line of   *)
(* trusted_tpm2.c that uses it.                                            *)
(***************************************************************************)
MIN_KEY_SIZE == 32
MAX_KEY_SIZE == 128
MAX_BLOB_SIZE == 512
PAGE_SIZE == 4096
TPM_HEADER_SIZE == 10
TPM2_RC_HASH == 131
TPM2_OA_FIXED_TPM == 2
TPM2_OA_FIXED_PARENT == 16
TPM2_OA_USER_WITH_AUTH == 64
TPM_ALG_KEYEDHASH == 8
TPM_ALG_NULL == 16
TPM_ALG_SHA256 == 11
TPM_ALG_SHA1 == 4
HASH_ALGO_SHA1 == 2
HASH_ALGO_SHA256 == 4
HASH_ALGO_MD5 == 1
EPERM == 1
EIO == 5
E2BIG == 7
ENOMEM == 12
EFAULT == 14
EINVAL == 22
EPIPE == 32
EBADMSG == 74

(***************************************************************************)
(* Bounds of the model.                                                    *)
(***************************************************************************)
\* number of seal/unseal calls in one run
MaxCalls == 2

---------------------------------------------------------------------------
(* Byte helpers *)

\* n bytes of recognisable content derived from seed
Fill(n, seed) == [i \in 1..n |-> (seed + 3 * i) % 256]

\* put_unaligned_be16 / tpm_buf_append_u16
BE16(n) == << (n \div 256) % 256, n % 256 >>

\* put_unaligned_be32 / tpm_buf_append_u32
BE32(n) == << (n \div 16777216) % 256, (n \div 65536) % 256, (n \div 256) % 256, n % 256 >>

\* bitwise test of a single-bit mask m (a power of two) in word w
HasBit(w, m) == (w \div m) % 2 = 1

\* the bytes of s from 0-based offset off, len of them (empty when out of range)
Slice(s, off, len) == IF len <= 0 \/ off + len > Len(s) THEN <<>> ELSE SubSeq(s, off + 1, off + len)

\* A u32 that may exceed the model checker's integers (a handle, the
\* object-attributes word, a length the module declares) is kept as its four
\* big-endian bytes.
U32(b3, b2, b1, b0) == << b3, b2, b1, b0 >>

U32Zero == << 0, 0, 0, 0 >>

\* the value of a u32 converted to a C int (two's complement)
U32ToInt(w) == ((IF w[1] >= 128 THEN w[1] - 256 ELSE w[1]) * 16777216) + w[2] * 65536 + w[3] * 256 + w[4]

\* whether a u32 has all the bits of mask set, mask below 256
U32HasBits(w, mask) ==
    \A k \in 0..7 : HasBit(mask, 2 ^ k) => HasBit(w[4], 2 ^ k)

\* s with its first Len(hdr) bytes replaced by hdr (s grown when shorter)
Overwrite(s, hdr) == IF Len(hdr) >= Len(s) THEN hdr ELSE hdr \o SubSeq(s, Len(hdr) + 1, Len(s))

---------------------------------------------------------------------------
(* lib/asn1_encoder.c: DER encoding helpers.  A work pointer is a record   *)
(* [err, buf]: err = 0 and the bytes written so far, or a negative errno   *)
(* (ERR_PTR).  cap is the size of the destination (end_data - start).      *)

WorkErr(e) == [err |-> e, buf |-> <<>>]

WorkStart == [err |-> 0, buf |-> <<>>]

\* the element of a one-element set; { e(x) : x \in {v} } binds x to the
\* value of v, so that v is computed once
Only(S) == CHOOSE r \in S : TRUE

\* asn1_encode_length: definite length, 1, 2, 3 or 4 bytes
asn1_encode_length(len) ==
    IF len <= 127 THEN << len >>
    ELSE IF len <= 255 THEN << 129, len >>
    ELSE IF len <= 65535 THEN << 130, len \div 256, len % 256 >>
    ELSE << 131, (len \div 65536) % 256, (len \div 256) % 256, len % 256 >>

\* tag, length and content appended at the work pointer, or -EINVAL when the
\* destination has no room for them
asn1_encode_tlv(w, cap, tag, str) ==
    IF w.err # 0 THEN w
    ELSE LET room == cap - Len(w.buf)
             hdr  == << tag >> \o asn1_encode_length(Len(str))
         IN  IF room < Len(hdr) \/ room - Len(hdr) < Len(str)
             THEN WorkErr(-EINVAL)
             ELSE [err |-> 0, buf |-> w.buf \o hdr \o str]

\* base-128 digits of one OID arc, most significant first
RECURSIVE asn1_encode_oid_digit(_)
asn1_encode_oid_digit(d) ==
    IF d < 128 THEN << d >>
    ELSE LET hi == asn1_encode_oid_digit(d \div 128)
         IN  [i \in 1..Len(hi) |-> IF hi[i] < 128 THEN hi[i] + 128 ELSE hi[i]] \o << d % 128 >>

RECURSIVE OidArcs(_, _)
OidArcs(oid, i) == IF i > Len(oid) THEN <<>> ELSE asn1_encode_oid_digit(oid[i]) \o OidArcs(oid, i + 1)

\* asn1_encode_oid
asn1_encode_oid(w, cap, oid) ==
    asn1_encode_tlv(w, cap, 6, << oid[1] * 40 + oid[2] >> \o OidArcs(oid, 3))

\* asn1_encode_boolean: 01 01 val
asn1_encode_boolean(w, cap, val) ==
    asn1_encode_tlv(w, cap, 1, << IF val THEN 1 ELSE 0 >>)

\* asn1_encode_tag: context-specific constructed tag
asn1_encode_tag(w, cap, tag, str) == asn1_encode_tlv(w, cap, 160 + tag, str)

\* big-endian bytes without their leading zero bytes
RECURSIVE IntBytes(_)
IntBytes(b) == IF b = <<>> \/ Head(b) # 0 THEN b ELSE IntBytes(Tail(b))

\* asn1_encode_integer of a u32 passed as s64 (never negative): minimal
\* bytes, a leading zero when bit 7 of the first is set
asn1_encode_integer(w, cap, n) ==
    LET b == IntBytes(n)
    IN  asn1_encode_tlv(w, cap, 2, IF b # <<>> /\ b[1] >= 128 THEN << 0 >> \o b ELSE b)

\* asn1_encode_octet_string
asn1_encode_octet_string(w, cap, str) == asn1_encode_tlv(w, cap, 4, str)

\* asn1_encode_sequence
asn1_encode_sequence(w, cap, seq) == asn1_encode_tlv(w, cap, 48, seq)

\* what asn1_encode_sequence has written into the destination when it fails
\* for lack of room: the tag and the length, when they fit
asn1_sequence_header(cap, len) ==
    LET hdr == << 48 >> \o asn1_encode_length(len)
    IN  IF cap < Len(hdr) THEN <<>> ELSE hdr


---------------------------------------------------------------------------
(* Reads from C buffers.  A buffer is the sequence of the bytes that were  *)
(* written to it; a read past them (stale page content, uninitialised      *)
(* heap, memory outside the allocation) yields junk, a value the           *)
(* environment picks.                                                      *)

RdByte(s, off, junk) == IF off >= 0 /\ off < Len(s) THEN s[off + 1] ELSE junk

RdBytes(s, off, n, junk) == [i \in 1..n |-> RdByte(s, off + i - 1, junk)]

Rd16(s, off, junk) == RdByte(s, off, junk) * 256 + RdByte(s, off + 1, junk)

Rd32(s, off, junk) == RdBytes(s, off, 4, junk)

---------------------------------------------------------------------------
(* tpm2_key_encode *)

\* static u32 tpm2key_oid[] = { 2, 23, 133, 10, 1, 5 }
tpm2key_oid == << 2, 23, 133, 10, 1, 5 >>

\* u16 priv_len = get_unaligned_be16(src) + 2
enc_priv_len(src, junk) == (Rd16(src, 0, junk) + 2) % 65536

\* u16 pub_len = get_unaligned_be16(src + priv_len) + 2
enc_pub_len(src, junk) == (Rd16(src, enc_priv_len(src, junk), junk) + 2) % 65536

\* an encoder that writes emptyAuth whatever blobauth_len is
enc_prefix_always_tag(blobauth_len) ==
    Only({ Only({ asn1_encode_tag(w0, PAGE_SIZE, 0, bl.buf) :
                  bl \in { asn1_encode_boolean(WorkStart, 3, TRUE) } }) :
           w0 \in { asn1_encode_oid(WorkStart, PAGE_SIZE, tpm2key_oid) } })

\* lines 54-66: the scratch content after the OID and the optional emptyAuth tag
enc_prefix(blobauth_len) ==
    Only({ IF blobauth_len = 0
           THEN Only({ asn1_encode_tag(w0, PAGE_SIZE, 0, bl.buf) :
                       bl \in { asn1_encode_boolean(WorkStart, 3, TRUE) } })
           ELSE w0 :
           w0 \in { asn1_encode_oid(WorkStart, PAGE_SIZE, tpm2key_oid) } })

\* the WARN of line 74: the two octet strings may not fit the scratch page
enc_scratch_too_small(work, priv_len, pub_len) ==
    Len(work.buf) + pub_len + priv_len + 14 > PAGE_SIZE

\* lines 80-82: the parent and the two octet strings appended to the scratch
enc_fields(work, keyhandle, pub, priv) ==
    Only({ Only({ asn1_encode_octet_string(w3, PAGE_SIZE, priv) :
                  w3 \in { asn1_encode_octet_string(w2, PAGE_SIZE, pub) } }) :
           w2 \in { asn1_encode_integer(work, PAGE_SIZE, keyhandle) } })

\* lines 84-99: the scratch wrapped in a SEQUENCE written to payload->blob,
\* whose size is MAX_BLOB_SIZE: [ret, blob]
enc_sequence(blob, work) ==
    IF work.err # 0 THEN [ret |-> work.err, blob |-> blob]
    ELSE Only({ IF work1.err # 0
                THEN [ret |-> work1.err,
                      blob |-> Overwrite(blob, asn1_sequence_header(MAX_BLOB_SIZE, Len(work.buf)))]
                ELSE [ret |-> Len(work1.buf), blob |-> Overwrite(blob, work1.buf)] :
                work1 \in { asn1_encode_sequence(WorkStart, MAX_BLOB_SIZE, work.buf) } })

\* tpm2_key_encode once priv_len, pub_len and the scratch prefix are known
enc_body(blob, keyhandle, src, junk, priv_len, pub_len, work) ==
    IF enc_scratch_too_small(work, priv_len, pub_len)
    THEN [ret |-> -EINVAL, blob |-> blob]
    ELSE Only({ enc_sequence(blob, w) :
                w \in { enc_fields(work, keyhandle, RdBytes(src, priv_len, pub_len, junk),
                                   RdBytes(src, 0, priv_len, junk)) } })

\* tpm2_key_encode(payload, options, src, len): [ret, blob], ret the encoded
\* length or a negative errno, blob the content of payload->blob afterwards.
\* scratch_ok: whether kmalloc(SCRATCH_SIZE) succeeded.  len is not read.
tpm2_key_encode(blob, blobauth_len, keyhandle, src, junk, scratch_ok) ==
    IF ~scratch_ok THEN [ret |-> -ENOMEM, blob |-> blob]
    ELSE Only({ enc_body(blob, keyhandle, src, junk, l[1], l[2], work) :
                l \in { << enc_priv_len(src, junk), enc_pub_len(src, junk) >> },
                work \in { enc_prefix(blobauth_len) } })

---------------------------------------------------------------------------
(* lib/asn1_decoder.c driven by tpm2key.asn1:                              *)
(*   TPMKey ::= SEQUENCE { type OBJECT IDENTIFIER, emptyAuth [0] EXPLICIT  *)
(*     BOOLEAN OPTIONAL, parent INTEGER, pubkey OCTET STRING,              *)
(*     privkey OCTET STRING }                                              *)

\* one tag-length-value element at 0-based offset pos of the first n bytes
\* of s: [ok, tag, vstart, vlen, next]
ber_tlv(s, n, pos) ==
    LET bad == [ok |-> FALSE, tag |-> 0, vstart |-> 0, vlen |-> 0, next |-> 0]
    IN  IF pos + 2 > n THEN bad
        ELSE LET tag == s[pos + 1]
                 l0  == s[pos + 2]
                 nl  == IF l0 <= 127 THEN 0 ELSE l0 - 128
             IN  IF l0 = 128 \/ nl > 2 \/ pos + 2 + nl > n THEN bad
                 ELSE LET vlen == IF nl = 0 THEN l0
                                  ELSE IF nl = 1 THEN s[pos + 3]
                                  ELSE s[pos + 3] * 256 + s[pos + 4]
                          vstart == pos + 2 + nl
                      IN  IF vstart + vlen > n THEN bad
                          ELSE [ok |-> TRUE, tag |-> tag, vstart |-> vstart,
                                vlen |-> vlen, next |-> vstart + vlen]

\* tpm2_key_type: the OID must be TPMSealedData (2.23.133.10.1.5)
tpm2_key_type(value) ==
    IF value = << 103, 129, 5, 10, 1, 5 >> THEN 0 ELSE -EINVAL

\* tpm2_key_parent: ctx->parent = 0, then for each byte parent <<= 8 and
\* parent |= v[i], in a u32: the bytes shifted past bit 31 are lost
RECURSIVE tpm2_key_parent(_, _)
tpm2_key_parent(value, acc) ==
    IF value = <<>> THEN acc
    ELSE tpm2_key_parent(Tail(value), << acc[2], acc[3], acc[4], Head(value) >>)

\* the context of a failed decode
ber_fail(e) == [ret |-> e, parent |-> U32Zero, pub |-> <<>>, priv |-> <<>>]

\* privkey OCTET STRING ({tpm2_key_priv}), the last element of the sequence
ber_privkey(s, lim, par, pub, priv) ==
    IF ~priv.ok \/ priv.tag # 4 \/ priv.next # lim THEN ber_fail(-EBADMSG)
    ELSE [ret |-> 0,
          parent |-> tpm2_key_parent(Slice(s, par.vstart, par.vlen), U32Zero),
          pub |-> Slice(s, pub.vstart, pub.vlen),
          priv |-> Slice(s, priv.vstart, priv.vlen)]

\* pubkey OCTET STRING ({tpm2_key_pub})
ber_pubkey(s, lim, par, pub) ==
    IF ~pub.ok \/ pub.tag # 4 THEN ber_fail(-EBADMSG)
    ELSE Only({ ber_privkey(s, lim, par, pub, priv) : priv \in { ber_tlv(s, lim, pub.next) } })

\* parent INTEGER ({tpm2_key_parent})
ber_parent(s, lim, par) ==
    IF ~par.ok \/ par.tag # 2 THEN ber_fail(-EBADMSG)
    ELSE Only({ ber_pubkey(s, lim, par, pub) : pub \in { ber_tlv(s, lim, par.next) } })

\* emptyAuth [0] EXPLICIT BOOLEAN OPTIONAL: el is the element after the OID
ber_empty_auth(s, lim, el) ==
    IF el.ok /\ el.tag = 160
    THEN Only({ IF ~inner.ok \/ inner.tag # 1 \/ inner.next # el.next
                THEN ber_fail(-EBADMSG)
                ELSE Only({ ber_parent(s, lim, par) : par \in { ber_tlv(s, lim, el.next) } }) :
                inner \in { ber_tlv(s, el.next, el.vstart) } })
    ELSE ber_parent(s, lim, el)

\* type OBJECT IDENTIFIER ({tpm2_key_type})
ber_type(s, lim, oid) ==
    IF ~oid.ok \/ oid.tag # 6 THEN ber_fail(-EBADMSG)
    ELSE IF tpm2_key_type(Slice(s, oid.vstart, oid.vlen)) # 0 THEN ber_fail(-EINVAL)
    ELSE Only({ ber_empty_auth(s, lim, el) : el \in { ber_tlv(s, lim, oid.next) } })

\* asn1_ber_decoder(&tpm2key_decoder, &ctx, blob, blob_len) on the first n
\* bytes of s: [ret, parent, pub, priv], pub and priv the views
\* tpm2_key_pub and tpm2_key_priv capture
asn1_ber_decoder(s, n) ==
    IF n > Len(s) THEN ber_fail(-EBADMSG)
    ELSE Only({ IF ~seq.ok \/ seq.tag # 48 THEN ber_fail(-EBADMSG)
                ELSE Only({ ber_type(s, seq.next, oid) :
                            oid \in { ber_tlv(s, seq.next, seq.vstart) } }) :
                seq \in { ber_tlv(s, n, 0) } })

---------------------------------------------------------------------------
(* tpm2_key_decode *)

\* a decode that stores the parent before it knows the allocation succeeded
decode_copy_sets_parent_early(ctx, keyhandle, blob_ok) ==
    IF ctx.ret < 0
    THEN [ret |-> ctx.ret, alloc |-> FALSE, size |-> 0, data |-> <<>>, keyhandle |-> keyhandle]
    ELSE IF Len(ctx.priv) + Len(ctx.pub) > MAX_BLOB_SIZE
    THEN [ret |-> -EINVAL, alloc |-> FALSE, size |-> 0, data |-> <<>>, keyhandle |-> keyhandle]
    ELSE IF ~blob_ok
    THEN [ret |-> -ENOMEM, alloc |-> FALSE, size |-> 0, data |-> <<>>, keyhandle |-> ctx.parent]
    ELSE [ret |-> 0, alloc |-> TRUE, size |-> Len(ctx.priv) + Len(ctx.pub) + 4,
          data |-> ctx.priv \o ctx.pub, keyhandle |-> ctx.parent]

\* a decode that copies the public area first
decode_copy_pub_first(ctx, keyhandle, blob_ok) ==
    IF ctx.ret < 0
    THEN [ret |-> ctx.ret, alloc |-> FALSE, size |-> 0, data |-> <<>>, keyhandle |-> keyhandle]
    ELSE IF Len(ctx.priv) + Len(ctx.pub) > MAX_BLOB_SIZE
    THEN [ret |-> -EINVAL, alloc |-> FALSE, size |-> 0, data |-> <<>>, keyhandle |-> keyhandle]
    ELSE IF ~blob_ok
    THEN [ret |-> -ENOMEM, alloc |-> FALSE, size |-> 0, data |-> <<>>, keyhandle |-> keyhandle]
    ELSE [ret |-> 0, alloc |-> TRUE, size |-> Len(ctx.priv) + Len(ctx.pub) + 4,
          data |-> ctx.pub \o ctx.priv, keyhandle |-> ctx.parent]

\* lines 124-139 on the decoder's context
decode_copy(ctx, keyhandle, blob_ok) ==
    IF ctx.ret < 0
    THEN [ret |-> ctx.ret, alloc |-> FALSE, size |-> 0, data |-> <<>>, keyhandle |-> keyhandle]
    ELSE IF Len(ctx.priv) + Len(ctx.pub) > MAX_BLOB_SIZE
    THEN [ret |-> -EINVAL, alloc |-> FALSE, size |-> 0, data |-> <<>>, keyhandle |-> keyhandle]
    ELSE IF ~blob_ok
    THEN [ret |-> -ENOMEM, alloc |-> FALSE, size |-> 0, data |-> <<>>, keyhandle |-> keyhandle]
    ELSE [ret |-> 0, alloc |-> TRUE, size |-> Len(ctx.priv) + Len(ctx.pub) + 4,
          data |-> ctx.priv \o ctx.pub, keyhandle |-> ctx.parent]

\* tpm2_key_decode(payload, options, &buf): [ret, alloc, size, data, keyhandle].
\* alloc: a buffer of size bytes was allocated and handed back in *buf; data:
\* the bytes memcpy wrote to it (private then public; the last 4 bytes of
\* the allocation are never written); keyhandle: options->keyhandle
\* afterwards.  blob_ok: whether kmalloc succeeded.
tpm2_key_decode(blob, blob_len, keyhandle, blob_ok) ==
    Only({ decode_copy(ctx, keyhandle, blob_ok) : ctx \in { asn1_ber_decoder(blob, blob_len) } })

---------------------------------------------------------------------------
(* State *)

VARIABLES
    pc,        \* position of the running call, "idle" between calls
    payload,   \* struct trusted_key_payload: key, key_len, blob, blob_len, migratable, old_format
    options,   \* struct trusted_key_options
    rc,        \* the int rc of the running function
    blob_len,  \* the int blob_len of tpm2_seal_trusted
    buf,       \* struct tpm_buf buf after a transmit: length, body (the bytes after the header), junk
    sized,     \* the public area tpm2_seal_trusted built in struct tpm_buf sized
    load,      \* locals of tpm2_load_cmd: blob (where it points), blob_len, the decode buffer
    blob_handle, \* the u32 blob_handle of tpm2_unseal_trusted
    chip,      \* the module as the calls see it: ops held, open sessions, calls counted
    call       \* the running call: op, number, what it was entered with, its return value,
               \* whether tpm2_load_cmd succeeded (loaded) and tpm2_unseal_cmd returned (cmd_done),
               \* the status of the Create exchange (status), whether its response echoed the
               \* attributes sent (echo), whether unseal was given that seal's payload (from_seal)

vars == << pc, payload, options, rc, blob_len, buf, sized, load, blob_handle, chip, call >>

\* static struct tpm2_hash tpm2_hash_map[]
tpm2_hash_map ==
    << [crypto_id |-> HASH_ALGO_SHA1, tpm_id |-> TPM_ALG_SHA1],
       [crypto_id |-> HASH_ALGO_SHA256, tpm_id |-> TPM_ALG_SHA256],
       [crypto_id |-> 5, tpm_id |-> 12],
       [crypto_id |-> 6, tpm_id |-> 13],
       [crypto_id |-> 17, tpm_id |-> 18] >>

\* the loop of lines 252-257: the first index whose crypto_id is hash, or
\* ARRAY_SIZE(tpm2_hash_map) + 1 (one past the end) when there is none
hash_index(hash) ==
    LET hit == { i \in 1..Len(tpm2_hash_map) : tpm2_hash_map[i].crypto_id = hash }
    IN  IF hit = {} THEN Len(tpm2_hash_map) + 1
        ELSE CHOOSE i \in hit : \A j \in hit : i <= j

\* tpm2_rc_value (include/linux/tpm.h): a format-one code keeps its low byte
tpm2_rc_value(r) == IF HasBit(r, 128) THEN r % 256 ELSE r

---------------------------------------------------------------------------
(* What the callers and the module supply *)

\* parent handles
KeyHandles == { U32Zero, U32(129, 0, 0, 1) }

\* a handle the module hands out for a loaded object
TransientHandle == U32(128, 0, 0, 0)

\* a policy session handle set up by the caller
PolicyHandle == U32(3, 0, 0, 0)

\* values a read of memory nobody wrote may give
JunkBytes == { 0, 255 }

NoBuf == [length |-> 0, body |-> <<>>, junk |-> 0]

NoLoad == [blob |-> "none", blob_len |-> 0, heap |-> "none", size |-> 0, data |-> <<>>, rd_end |-> 0]

\* the options a caller passes to seal
SealOptions ==
    { [keyhandle |-> kh, keyauth |-> "keyauth", blobauth |-> "blobauth", blobauth_len |-> bl,
       policydigest |-> "policydigest", policydigest_len |-> pl, policyhandle |-> U32Zero,
       hash |-> h] :
      kh \in KeyHandles, bl \in {0, 20}, pl \in {0, 32}, h \in {HASH_ALGO_SHA256, HASH_ALGO_MD5} }

\* the payloads a caller passes to seal: a key, no blob yet
SealPayloads ==
    { [key |-> Fill(MIN_KEY_SIZE, 5), key_len |-> MIN_KEY_SIZE, blob |-> <<>>, blob_len |-> 0,
       migratable |-> m, old_format |-> 0] : m \in {0, 1} }

InitOptions ==
    [keyhandle |-> U32Zero, keyauth |-> "keyauth", blobauth |-> "blobauth", blobauth_len |-> 0,
     policydigest |-> "policydigest", policydigest_len |-> 0, policyhandle |-> U32Zero,
     hash |-> HASH_ALGO_SHA256]

InitPayload ==
    [key |-> <<>>, key_len |-> 0, blob |-> <<>>, blob_len |-> 0, migratable |-> 1, old_format |-> 0]

Init ==
    /\ pc = "idle"
    /\ payload = InitPayload
    /\ options = InitOptions
    /\ rc = 0
    /\ blob_len = 0
    /\ buf = NoBuf
    /\ sized = <<>>
    /\ load = NoLoad
    /\ blob_handle = U32Zero
    /\ chip = [ops |-> 0, sessions |-> 0, bufs |-> 0, gets |-> 0, puts |-> 0, starts |-> 0,
               ends |-> 0, transmits |-> 0, flushes |-> 0, leaks |-> 0]
    /\ call = [op |-> "none", n |-> 0, options0 |-> InitOptions, payload0 |-> InitPayload,
               ret |-> 0, loaded |-> FALSE, cmd_done |-> FALSE,
               status |-> 0, echo |-> FALSE, from_seal |-> FALSE]

\* the bookkeeping of a call that starts: its counters start from zero
Enter(op, o, p) ==
    /\ call' = [op |-> op, n |-> call.n + 1, options0 |-> o, payload0 |-> p, ret |-> 0,
                loaded |-> FALSE, cmd_done |-> FALSE, status |-> 0, echo |-> FALSE,
                from_seal |-> (op = "unseal" /\ call.op = "seal" /\ call.ret = 0 /\ call.echo
                               /\ p = payload)]
    /\ chip' = [chip EXCEPT !.gets = 0, !.puts = 0, !.starts = 0, !.ends = 0,
                            !.transmits = 0, !.flushes = 0]

\* the entry point returns r to its caller
Return(r) ==
    /\ pc' = "returned"
    /\ call' = [call EXCEPT !.ret = r]

\* tpm_try_get_ops succeeded / tpm_put_ops
GetOps(c) == [c EXCEPT !.ops = @ + 1, !.gets = @ + 1]
PutOps(c) == [c EXCEPT !.ops = @ - 1, !.puts = @ + 1]

\* tpm2_start_auth_session succeeded / tpm2_end_auth_session (which
\* tpm_buf_check_hmac_response also does to the session it checks)
StartSession(c) == [c EXCEPT !.sessions = @ + 1, !.starts = @ + 1]
EndSession(c) == [c EXCEPT !.sessions = @ - 1, !.ends = @ + 1]

\* what tpm2_start_auth_session returns: 0, an errno, or the module's
\* status for the StartAuthSession command, which it hands on unmapped
SessionStartResults == { 0, -ENOMEM, 142 }

\* tpm_buf_init succeeded / tpm_buf_destroy
BufInit(c, n) == [c EXCEPT !.bufs = @ + n]
BufDestroy(c, n) == [c EXCEPT !.bufs = @ - n]

\* tpm_transmit_cmd followed by tpm_buf_check_hmac_response
Transmit(c) == [EndSession(c) EXCEPT !.transmits = @ + 1]

---------------------------------------------------------------------------
(* The module's answers to TPM2_Create.  A response is [rc, length, body,  *)
(* junk]: rc what tpm_transmit_cmd and tpm_buf_check_hmac_response return  *)
(* (negative errno, 0, or the module's positive status), length the        *)
(* response length tpm_transmit_cmd stores in buf.length (never below the  *)
(* header plus the 4 bytes seal asks for), body the response bytes after   *)
(* the header, junk what the rest of the page holds.                       *)

\* u32 size, then TPM2B private, TPM2B public, then the rest of the response
CreateBody(declared, priv_size, priv, pub_size, pub, rest) ==
    declared \o BE16(priv_size) \o priv \o BE16(pub_size) \o pub \o rest

Rsp(r, body, len, junk) == [rc |-> r, length |-> len, body |-> body, junk |-> junk]

\* a well-formed response: a private area of pn bytes, the public area as
\* sent followed by the unique field, and the declared size covering both
HonestCreate(pn, pub_sent) ==
    LET pub == pub_sent \o BE16(4) \o Fill(4, 3)
        body == CreateBody(BE32(pn + Len(pub) + 4), pn, Fill(pn, 1), Len(pub), pub, <<>>)
    IN  Rsp(0, body, TPM_HEADER_SIZE + Len(body), 0)

\* whether a response carries, in its public area, the object-attributes
\* word of the public area that was sent
CreateEchoes(r, pub_sent) ==
    /\ r.rc = 0
    /\ Len(pub_sent) >= 8
    /\ Slice(r.body, 4 + 2 + Rd16(r.body, 4, r.junk) + 2 + 4, 4) = Slice(pub_sent, 4, 4)

CreateResponses(pub_sent) ==
    { HonestCreate(40, pub_sent),
      \* private and public area together close to MAX_BLOB_SIZE
      HonestCreate(470, pub_sent),
      \* declared size above MAX_BLOB_SIZE
      Rsp(0, CreateBody(BE32(600), 8, Fill(8, 1), 8, Fill(8, 2), <<>>), TPM_HEADER_SIZE + 24, 0),
      \* declared size beyond the end of the response
      Rsp(0, CreateBody(BE32(100), 8, Fill(8, 1), 8, Fill(8, 2), <<>>), TPM_HEADER_SIZE + 24, 0),
      \* declared size with bit 31 set
      Rsp(0, CreateBody(U32(255, 255, 255, 255), 8, Fill(8, 1), 8, Fill(8, 2), <<>>),
          TPM_HEADER_SIZE + 24, 0),
      \* areas larger than the declared size
      Rsp(0, CreateBody(BE32(12), 40, Fill(40, 1), 30, Fill(30, 2), <<>>), TPM_HEADER_SIZE + 78, 0),
      \* a private size of 0xFFFE
      Rsp(0, CreateBody(BE32(20), 65534, Fill(8, 1), 8, Fill(6, 2), <<>>), TPM_HEADER_SIZE + 24, 255),
      \* module status: bad hash algorithm, authorisation failure
      Rsp(TPM2_RC_HASH, <<>>, TPM_HEADER_SIZE, 0),
      Rsp(142, <<>>, TPM_HEADER_SIZE, 0),
      \* transport error
      Rsp(-EIO, <<>>, 0, 0) }

---------------------------------------------------------------------------
(* tpm2_seal_trusted *)

\* a seal that lets a zero parent handle through
seal_args_invalid_hash_only(o) == hash_index(o.hash) = Len(tpm2_hash_map) + 1

\* lines 259-263: the two -EINVAL returns before anything is acquired
seal_args_invalid(o) ==
    hash_index(o.hash) = Len(tpm2_hash_map) + 1 \/ o.keyhandle = U32Zero

\* lines 240-263: the call is entered; hash lookup and keyhandle check
seal_entry ==
    /\ pc = "idle"
    /\ call.n < MaxCalls
    /\ \E o \in SealOptions, p \in SealPayloads :
        /\ options' = o
        /\ payload' = p
        /\ Enter("seal", o, p)
        /\ IF seal_args_invalid(o)
           THEN /\ pc' = "seal_ret"
                /\ rc' = -EINVAL
           ELSE /\ pc' = "seal_get_ops"
                /\ rc' = 0
    /\ blob_len' = 0
    /\ buf' = NoBuf
    /\ sized' = <<>>
    /\ load' = NoLoad
    /\ UNCHANGED blob_handle

\* lines 265-267: rc = tpm_try_get_ops(chip)
seal_get_ops ==
    /\ pc = "seal_get_ops"
    /\ \E r \in {0, -EPIPE} :
        /\ rc' = r
        /\ IF r # 0
           THEN pc' = "seal_ret" /\ UNCHANGED chip
           ELSE pc' = "seal_start" /\ chip' = GetOps(chip)
    /\ UNCHANGED << payload, options, blob_len, buf, sized, load, blob_handle, call >>

\* lines 269-271: rc = tpm2_start_auth_session(chip)
seal_start_session ==
    /\ pc = "seal_start"
    /\ \E r \in SessionStartResults :
        /\ rc' = r
        /\ IF r # 0
           THEN pc' = "seal_out_put" /\ UNCHANGED chip
           ELSE pc' = "seal_buf_init" /\ chip' = StartSession(chip)
    /\ UNCHANGED << payload, options, blob_len, buf, sized, load, blob_handle, call >>

\* lines 273-284: tpm_buf_init(&buf), tpm_buf_init_sized(&sized)
seal_buf_init ==
    /\ pc = "seal_buf_init"
    /\ \E r1 \in {0, -ENOMEM}, r2 \in {0, -ENOMEM} :
        IF r1 # 0
        THEN /\ rc' = r1
             /\ chip' = EndSession(chip)
             /\ pc' = "seal_out_put"
        ELSE IF r2 # 0
        THEN /\ rc' = r2
             /\ chip' = EndSession(BufDestroy(BufInit(chip, 1), 1))
             /\ pc' = "seal_out_put"
        ELSE /\ rc' = 0
             /\ chip' = BufInit(chip, 2)
             /\ pc' = "seal_build"
    /\ UNCHANGED << payload, options, blob_len, buf, sized, load, blob_handle, call >>

\* a seal that fixes every object to TPM and parent
seal_flags_always_fixed(o, p) ==
    (IF o.policydigest_len # 0 THEN 0 ELSE TPM2_OA_USER_WITH_AUTH)
    + TPM2_OA_FIXED_TPM + TPM2_OA_FIXED_PARENT

\* lines 305-308: the object attributes of the sealed object
seal_flags(o, p) ==
    (IF o.policydigest_len # 0 THEN 0 ELSE TPM2_OA_USER_WITH_AUTH)
    + (IF p.migratable # 0 THEN 0 ELSE TPM2_OA_FIXED_TPM + TPM2_OA_FIXED_PARENT)

\* lines 300-318: the public area appended to sized
seal_public(o, p) ==
    BE16(TPM_ALG_KEYEDHASH) \o BE16(tpm2_hash_map[hash_index(o.hash)].tpm_id)
    \o BE32(seal_flags(o, p))
    \o BE16(o.policydigest_len) \o Fill(o.policydigest_len, 9)
    \o BE16(TPM_ALG_NULL) \o BE16(0)

\* lines 286-332: the command is built; TPM_BUF_OVERFLOW is the buffer
\* helpers' verdict on whether it fitted the page
seal_build ==
    /\ pc = "seal_build"
    /\ sized' = seal_public(options, payload)
    /\ \E overflow \in BOOLEAN :
        IF overflow
        THEN /\ rc' = -E2BIG
             /\ chip' = EndSession(chip)
             /\ pc' = "seal_out"
        ELSE /\ rc' = 0
             /\ pc' = "seal_transmit"
             /\ UNCHANGED chip
    /\ UNCHANGED << payload, options, blob_len, buf, load, blob_handle, call >>

\* lines 334-338: tpm_transmit_cmd, tpm_buf_check_hmac_response
seal_transmit ==
    /\ pc = "seal_transmit"
    /\ \E r \in CreateResponses(sized) :
        /\ buf' = [length |-> r.length, body |-> r.body, junk |-> r.junk]
        /\ rc' = r.rc
        /\ call' = [call EXCEPT !.status = r.rc, !.echo = CreateEchoes(r, sized)]
        /\ pc' = IF r.rc # 0 THEN "seal_out" ELSE "seal_parse"
    /\ chip' = Transmit(chip)
    /\ UNCHANGED << payload, options, blob_len, sized, load, blob_handle >>

\* tpm_buf_read_u32(&buf, &offset) at offset TPM_HEADER_SIZE: [value,
\* boundary_error]; a read past buf.length sets TPM_BUF_BOUNDARY_ERROR and
\* yields 0
tpm_buf_read_u32(b) ==
    IF TPM_HEADER_SIZE + 4 > b.length
    THEN [value |-> 0, boundary_error |-> TRUE, offset |-> TPM_HEADER_SIZE]
    ELSE [value |-> U32ToInt(Rd32(b.body, 0, b.junk)), boundary_error |-> FALSE,
          offset |-> TPM_HEADER_SIZE + 4]

\* lines 340-350: [rc, blob_len, blob] after the length checks and the encoder
seal_parse_result(b, p, o, scratch_ok) ==
    LET rd == tpm_buf_read_u32(b)
    IN  IF rd.value > MAX_BLOB_SIZE \/ rd.boundary_error
        THEN [rc |-> -E2BIG, blob_len |-> rd.value, blob |-> p.blob]
        ELSE IF b.length - rd.offset < rd.value
        THEN [rc |-> -EFAULT, blob_len |-> rd.value, blob |-> p.blob]
        ELSE Only({ [rc |-> 0, blob_len |-> enc.ret, blob |-> enc.blob] :
                    enc \in { tpm2_key_encode(p.blob, o.blobauth_len, o.keyhandle,
                                              Slice(b.body, 4, Len(b.body) - 4), b.junk,
                                              scratch_ok) } })

seal_parse ==
    /\ pc = "seal_parse"
    /\ \E scratch_ok \in BOOLEAN :
        \E res \in { seal_parse_result(buf, payload, options, scratch_ok) } :
            /\ rc' = res.rc
            /\ blob_len' = res.blob_len
            /\ payload' = [payload EXCEPT !.blob = res.blob]
    /\ pc' = "seal_out"
    /\ UNCHANGED << options, buf, sized, load, blob_handle, chip, call >>

\* lines 356-361: a positive module status becomes -EINVAL or -EPERM
seal_map_rc(r) ==
    IF r > 0 THEN (IF tpm2_rc_value(r) = TPM2_RC_HASH THEN -EINVAL ELSE -EPERM) ELSE r

\* a seal that stores blob_len whatever its sign
seal_store_blob_len_always(p, bl) == [p EXCEPT !.blob_len = bl]

\* lines 362-365: the value stored in payload->blob_len
seal_store_blob_len(p, bl) ==
    IF bl < 0 THEN p ELSE [p EXCEPT !.blob_len = bl]

\* lines 352-365
seal_out ==
    /\ pc = "seal_out"
    /\ chip' = BufDestroy(chip, 2)
    /\ rc' = IF blob_len < 0 THEN blob_len ELSE seal_map_rc(rc)
    /\ payload' = seal_store_blob_len(payload, blob_len)
    /\ pc' = "seal_out_put"
    /\ UNCHANGED << options, blob_len, buf, sized, load, blob_handle, call >>

\* a seal that returns without tpm_put_ops
seal_out_put_keeps_ops ==
    /\ pc = "seal_out_put"
    /\ Return(rc)
    /\ UNCHANGED << payload, options, rc, blob_len, buf, sized, load, blob_handle, chip >>

\* lines 367-369
seal_out_put ==
    /\ pc = "seal_out_put"
    /\ chip' = PutOps(chip)
    /\ Return(rc)
    /\ UNCHANGED << payload, options, rc, blob_len, buf, sized, load, blob_handle >>

\* the return statements of lines 260, 263 and 267
seal_ret ==
    /\ pc = "seal_ret"
    /\ Return(rc)
    /\ UNCHANGED << payload, options, rc, blob_len, buf, sized, load, blob_handle, chip >>

---------------------------------------------------------------------------
(* The blobs callers hand to unseal *)

\* a TPM2B: u16 size, then the bytes
TPM2B(declared, bytes) == BE16(declared) \o bytes

\* a public area: type, nameAlg, the object attributes at offset 4, the rest
PublicArea(attrs, extra) ==
    BE16(TPM_ALG_KEYEDHASH) \o BE16(TPM_ALG_SHA256) \o BE32(attrs) \o Fill(extra, 7)

\* the legacy layout: u16 priv_len | priv | u16 pub_len | pub
LegacyBlob(priv_declared, priv, pub_declared, pub) ==
    TPM2B(priv_declared, priv) \o TPM2B(pub_declared, pub)

\* the structured layout, as a tool writing TPMKey would emit it
StructuredBlob(empty_auth, parent, pub, priv) ==
    Only({ asn1_encode_sequence(WorkStart, PAGE_SIZE, w.buf).buf :
           w \in { enc_fields(enc_prefix(IF empty_auth THEN 0 ELSE 1), parent, pub, priv) } })

FixedAttrs == TPM2_OA_USER_WITH_AUTH + TPM2_OA_FIXED_TPM + TPM2_OA_FIXED_PARENT

UnsealBlobs ==
    { \* legacy, well formed, fixed to TPM and parent
      LegacyBlob(10, Fill(10, 1), 12, PublicArea(FixedAttrs, 4)),
      \* legacy, well formed, only FIXED_TPM
      LegacyBlob(10, Fill(10, 1), 12, PublicArea(TPM2_OA_USER_WITH_AUTH + TPM2_OA_FIXED_TPM, 4)),
      \* legacy, well formed, only FIXED_PARENT, other attribute bits set
      LegacyBlob(10, Fill(10, 1), 12, PublicArea(262144 + 32 + TPM2_OA_FIXED_PARENT, 4)),
      \* legacy, a public area of 4 bytes
      LegacyBlob(10, Fill(10, 1), 4, Fill(4, 7)),
      \* too short for two length fields
      << 0, 1, 2 >>,
      \* legacy, the private length leaves no room for the public length
      LegacyBlob(100, Fill(10, 1), 12, PublicArea(FixedAttrs, 4)),
      \* legacy, the public length runs past the blob
      LegacyBlob(10, Fill(10, 1), 200, PublicArea(FixedAttrs, 4)),
      \* structured, well formed
      StructuredBlob(TRUE, U32(129, 0, 0, 1), TPM2B(12, PublicArea(FixedAttrs, 4)),
                     TPM2B(10, Fill(10, 1))),
      \* structured, migratable object, no emptyAuth
      StructuredBlob(FALSE, U32(64, 0, 0, 7), TPM2B(12, PublicArea(TPM2_OA_USER_WITH_AUTH, 4)),
                     TPM2B(10, Fill(10, 1))),
      \* structured, parent 0
      StructuredBlob(TRUE, U32Zero, TPM2B(12, PublicArea(FixedAttrs, 4)), TPM2B(10, Fill(10, 1))),
      \* structured, the private area declares more bytes than it holds
      StructuredBlob(TRUE, U32(129, 0, 0, 1), TPM2B(12, PublicArea(FixedAttrs, 4)),
                     TPM2B(30, Fill(4, 1))),
      \* structured, the private area declares more than the whole blob
      StructuredBlob(TRUE, U32(129, 0, 0, 1), TPM2B(12, PublicArea(FixedAttrs, 4)),
                     TPM2B(300, Fill(10, 1))),
      \* structured, a public area of 4 bytes
      StructuredBlob(TRUE, U32(129, 0, 0, 1), TPM2B(4, Fill(4, 7)), TPM2B(10, Fill(10, 1))) }

\* the payloads a caller passes to unseal: a blob, no key yet
UnsealPayloads ==
    { [key |-> <<>>, key_len |-> 0, blob |-> b, blob_len |-> Len(b), migratable |-> 1,
       old_format |-> 0] : b \in UnsealBlobs }

\* the options a caller passes to unseal
UnsealOptions ==
    { [keyhandle |-> kh, keyauth |-> "keyauth", blobauth |-> "blobauth", blobauth_len |-> bl,
       policydigest |-> "policydigest", policydigest_len |-> 0, policyhandle |-> ph,
       hash |-> HASH_ALGO_SHA256] :
      kh \in KeyHandles, bl \in {0, 20}, ph \in {U32Zero, PolicyHandle} }

\* the module's answers to TPM2_Load: body is the handle area
LoadResponses ==
    { Rsp(0, TransientHandle, TPM_HEADER_SIZE + 4, 0),
      Rsp(142, <<>>, TPM_HEADER_SIZE, 0),
      Rsp(-EIO, <<>>, 0, 0) }

\* an Unseal response: u32 parameter size, u16 data size, the data, whose
\* last byte is last; cut bytes short of what it declares
UnsealRsp(n, last, cut) ==
    LET data == Fill(n - 1, 11) \o << last >>
        body == BE32(n + 2) \o BE16(n) \o SubSeq(data, 1, n - cut)
    IN  Rsp(0, body, TPM_HEADER_SIZE + Len(body), 0)

\* the module's answers to TPM2_Unseal; tpm_transmit_cmd lets no response
\* shorter than the header plus 6 bytes through
UnsealResponses ==
    { UnsealRsp(n, last, 0) :
        n \in {MIN_KEY_SIZE - 1, MIN_KEY_SIZE, MIN_KEY_SIZE + 1, MAX_KEY_SIZE, MAX_KEY_SIZE + 1},
        last \in {0, 1} }
    \cup { UnsealRsp(64, 1, 1), UnsealRsp(MAX_KEY_SIZE, 1, MAX_KEY_SIZE),
           Rsp(142, <<>>, TPM_HEADER_SIZE, 0), Rsp(-EIO, <<>>, 0, 0) }

---------------------------------------------------------------------------
(* tpm2_unseal_trusted, tpm2_load_cmd, tpm2_unseal_cmd *)

\* lines 583-588: the call is entered, with a blob the caller loaded or
\* with the payload the preceding successful seal left
unseal_entry ==
    /\ pc = "idle"
    /\ call.n < MaxCalls
    /\ \E o \in UnsealOptions,
          p \in UnsealPayloads \cup (IF call.op = "seal" /\ call.ret = 0 THEN {payload} ELSE {}) :
        /\ options' = o
        /\ payload' = p
        /\ Enter("unseal", o, p)
    /\ pc' = "unseal_get_ops"
    /\ rc' = 0
    /\ blob_len' = 0
    /\ buf' = NoBuf
    /\ sized' = <<>>
    /\ load' = NoLoad
    /\ \E h \in {U32Zero, U32(255, 255, 255, 255)} : blob_handle' = h

\* lines 590-592: rc = tpm_try_get_ops(chip)
unseal_get_ops ==
    /\ pc = "unseal_get_ops"
    /\ \E r \in {0, -EPIPE} :
        /\ rc' = r
        /\ IF r # 0
           THEN pc' = "unseal_ret" /\ UNCHANGED chip
           ELSE pc' = "load_decode" /\ chip' = GetOps(chip)
    /\ UNCHANGED << payload, options, blob_len, buf, sized, load, blob_handle, call >>

\* lines 398-403: structured decode, else the blob itself in the old form
load_decode ==
    /\ pc = "load_decode"
    /\ \E blob_ok \in BOOLEAN :
        \E dec \in { tpm2_key_decode(payload.blob, payload.blob_len, options.keyhandle, blob_ok) } :
        /\ IF dec.ret # 0
            THEN /\ load' = [blob |-> "payload", blob_len |-> 0, heap |-> "none",
                             size |-> payload.blob_len, data |-> payload.blob, rd_end |-> 0]
                 /\ payload' = [payload EXCEPT !.old_format = 1]
                 /\ rc' = dec.ret
            ELSE /\ load' = [blob |-> "heap", blob_len |-> 0, heap |-> "live",
                             size |-> dec.size, data |-> dec.data, rd_end |-> 0]
                 /\ rc' = 0
                 /\ UNCHANGED payload
        /\ options' = [options EXCEPT !.keyhandle = dec.keyhandle]
    /\ pc' = "load_validate"
    /\ UNCHANGED << blob_len, buf, sized, blob_handle, chip, call >>

\* a Load that takes a blob with either of the two FIXED bits for fixed
load_migratable_either_bit(attrs) ==
    IF U32HasBits(attrs, TPM2_OA_FIXED_TPM) \/ U32HasBits(attrs, TPM2_OA_FIXED_PARENT)
    THEN 0 ELSE 1

\* lines 427-431
load_migratable(attrs) ==
    IF U32HasBits(attrs, TPM2_OA_FIXED_TPM + TPM2_OA_FIXED_PARENT) THEN 0 ELSE 1

Max(a, b) == IF a >= b THEN a ELSE b

\* a Load that does not check the public length against blob_len
load_validate_result_no_public_check(data, p, o, junk) ==
    LET private_len == Rd16(data, 0, junk)
        public_len  == Rd16(data, 2 + private_len, junk)
        attrs       == Rd32(data, 2 + private_len + 2 + 4, junk)
        res(r, m, bl, e) == [rc |-> r, migratable |-> m, blob_len |-> bl, rd_end |-> e]
    IN  IF o.keyhandle = U32Zero THEN res(-EINVAL, p.migratable, 0, 0)
        ELSE IF p.blob_len < 4 THEN res(-EINVAL, p.migratable, 0, 0)
        ELSE IF private_len + 2 + 2 > p.blob_len THEN res(-E2BIG, p.migratable, 0, 2)
        ELSE res(0, load_migratable(attrs), private_len + public_len + 4,
                 2 + private_len + 2 + 8)

\* lines 405-435 on the buffer blob points to: [rc, migratable, blob_len,
\* rd_end].  rc = 0 when every check passed; migratable is the payload's
\* value afterwards; rd_end is the end of the furthest read.
load_validate_result(data, p, o, junk) ==
    LET private_len == Rd16(data, 0, junk)
        public_len  == Rd16(data, 2 + private_len, junk)
        attrs       == Rd32(data, 2 + private_len + 2 + 4, junk)
        res(r, m, bl, e) == [rc |-> r, migratable |-> m, blob_len |-> bl, rd_end |-> e]
    IN  IF o.keyhandle = U32Zero THEN res(-EINVAL, p.migratable, 0, 0)
        ELSE IF p.blob_len < 4 THEN res(-EINVAL, p.migratable, 0, 0)
        ELSE IF private_len + 2 + 2 > p.blob_len THEN res(-E2BIG, p.migratable, 0, 2)
        ELSE IF private_len + 2 + public_len + 2 > p.blob_len
        THEN res(-E2BIG, p.migratable, 0, 2 + private_len + 2)
        ELSE IF private_len + public_len + 4 > p.blob_len
        THEN res(-E2BIG, load_migratable(attrs), private_len + public_len + 4,
                 2 + private_len + 2 + 8)
        ELSE res(0, load_migratable(attrs), private_len + public_len + 4,
                 2 + private_len + 2 + 8)

load_validate ==
    /\ pc = "load_validate"
    /\ \E junk \in JunkBytes :
        \E res \in { load_validate_result(load.data, payload, options, junk) } :
            /\ rc' = res.rc
            /\ payload' = [payload EXCEPT !.migratable = res.migratable]
            /\ load' = [load EXCEPT !.blob_len = res.blob_len, !.rd_end = res.rd_end]
            /\ pc' = IF res.rc # 0 THEN "load_ret" ELSE "load_start"
    /\ UNCHANGED << options, blob_len, buf, sized, blob_handle, chip, call >>

\* lines 437-439: rc = tpm2_start_auth_session(chip)
load_start_session ==
    /\ pc = "load_start"
    /\ \E r \in SessionStartResults :
        /\ rc' = r
        /\ IF r # 0
           THEN pc' = "load_ret" /\ UNCHANGED chip
           ELSE pc' = "load_buf_init" /\ chip' = StartSession(chip)
    /\ UNCHANGED << payload, options, blob_len, buf, sized, load, blob_handle, call >>

\* a Load whose tpm_buf_init failure returns with the session left open
load_buf_init_leaves_session ==
    /\ pc = "load_buf_init"
    /\ \E r \in {0, -ENOMEM} :
        /\ rc' = r
        /\ IF r # 0
           THEN pc' = "load_ret" /\ UNCHANGED chip
           ELSE pc' = "load_build" /\ chip' = BufInit(chip, 1)
    /\ UNCHANGED << payload, options, blob_len, buf, sized, load, blob_handle, call >>

\* lines 441-445: rc = tpm_buf_init(&buf)
load_buf_init ==
    /\ pc = "load_buf_init"
    /\ \E r \in {0, -ENOMEM} :
        /\ rc' = r
        /\ IF r # 0
           THEN pc' = "load_ret" /\ chip' = EndSession(chip)
           ELSE pc' = "load_build" /\ chip' = BufInit(chip, 1)
    /\ UNCHANGED << payload, options, blob_len, buf, sized, load, blob_handle, call >>

\* lines 447-457: the command is built from blob_len bytes at blob
load_build ==
    /\ pc = "load_build"
    /\ load' = [load EXCEPT !.rd_end = Max(@, load.blob_len)]
    /\ \E overflow \in BOOLEAN :
        IF overflow
        THEN /\ rc' = -E2BIG
             /\ chip' = EndSession(chip)
             /\ pc' = "load_out"
        ELSE /\ rc' = 0
             /\ pc' = "load_transmit"
             /\ UNCHANGED chip
    /\ UNCHANGED << payload, options, blob_len, buf, sized, blob_handle, call >>

\* lines 459-464: transmit, check, and the handle read from the response
load_transmit ==
    /\ pc = "load_transmit"
    /\ \E r \in LoadResponses :
        /\ buf' = [length |-> r.length, body |-> r.body, junk |-> r.junk]
        /\ rc' = r.rc
        /\ blob_handle' = IF r.rc = 0 THEN Rd32(r.body, 0, r.junk) ELSE blob_handle
    /\ chip' = Transmit(chip)
    /\ pc' = "load_out"
    /\ UNCHANGED << payload, options, blob_len, sized, load, call >>

\* a Load that frees whatever blob points to
load_free_always(l) == [l EXCEPT !.heap = "freed"]

\* lines 467-468: if (blob != payload->blob) kfree(blob)
load_free(l) == IF l.blob # "payload" THEN [l EXCEPT !.heap = "freed"] ELSE l

\* lines 466-474
load_out ==
    /\ pc = "load_out"
    /\ load' = load_free(load)
    /\ chip' = BufDestroy(chip, 1)
    /\ rc' = IF rc > 0 THEN -EPERM ELSE rc
    /\ pc' = "load_ret"
    /\ UNCHANGED << payload, options, blob_len, buf, sized, blob_handle, call >>

\* an unseal that flushes the handle whether or not Load succeeded
load_ret_flushes_on_error ==
    /\ pc = "load_ret"
    /\ chip' = IF load.heap = "live" THEN [chip EXCEPT !.leaks = @ + 1] ELSE chip
    /\ call' = [call EXCEPT !.loaded = (rc = 0)]
    /\ pc' = IF rc # 0 THEN "unseal_flush" ELSE "unseal_start"
    /\ UNCHANGED << payload, options, rc, blob_len, buf, sized, load, blob_handle >>

\* tpm2_load_cmd returns rc; lines 594-596 of tpm2_unseal_trusted.  A decode
\* buffer still allocated here has no owner left.
load_ret ==
    /\ pc = "load_ret"
    /\ chip' = IF load.heap = "live" THEN [chip EXCEPT !.leaks = @ + 1] ELSE chip
    /\ call' = [call EXCEPT !.loaded = (rc = 0)]
    /\ pc' = IF rc # 0 THEN "unseal_out" ELSE "unseal_start"
    /\ UNCHANGED << payload, options, rc, blob_len, buf, sized, load, blob_handle >>

\* lines 499-501: rc = tpm2_start_auth_session(chip)
unseal_start_session ==
    /\ pc = "unseal_start"
    /\ \E r \in SessionStartResults :
        /\ rc' = r
        /\ IF r # 0
           THEN pc' = "unseal_flush" /\ UNCHANGED chip
           ELSE pc' = "unseal_buf_init" /\ chip' = StartSession(chip)
        /\ call' = [call EXCEPT !.cmd_done = (r # 0)]
    /\ UNCHANGED << payload, options, blob_len, buf, sized, load, blob_handle >>

\* lines 503-507: rc = tpm_buf_init(&buf)
unseal_buf_init ==
    /\ pc = "unseal_buf_init"
    /\ \E r \in {0, -ENOMEM} :
        /\ rc' = r
        /\ IF r # 0
           THEN pc' = "unseal_flush" /\ chip' = EndSession(chip)
           ELSE pc' = "unseal_transmit" /\ chip' = BufInit(chip, 1)
        /\ call' = [call EXCEPT !.cmd_done = (r # 0)]
    /\ UNCHANGED << payload, options, blob_len, buf, sized, load, blob_handle >>

\* lines 509-538: the command is built for either authorisation mode, sent
\* and checked; a positive module status becomes -EPERM
unseal_transmit ==
    /\ pc = "unseal_transmit"
    /\ \E r \in UnsealResponses :
        /\ buf' = [length |-> r.length, body |-> r.body, junk |-> r.junk]
        /\ rc' = IF r.rc > 0 THEN -EPERM ELSE r.rc
    /\ chip' = Transmit(chip)
    /\ pc' = "unseal_parse"
    /\ UNCHANGED << payload, options, blob_len, sized, load, blob_handle, call >>

\* an Unseal that treats every blob as new format
unseal_parse_result_ignores_old_format(r, b, p) ==
    LET data_len == Rd16(b.body, 4, b.junk)
        data == RdBytes(b.body, 6, data_len, b.junk)
    IN  IF r # 0 THEN [rc |-> r, payload |-> p]
        ELSE IF data_len < MIN_KEY_SIZE \/ data_len > MAX_KEY_SIZE
        THEN [rc |-> -EFAULT, payload |-> p]
        ELSE IF b.length < TPM_HEADER_SIZE + 6 + data_len
        THEN [rc |-> -EFAULT, payload |-> p]
        ELSE [rc |-> 0,
              payload |-> [p EXCEPT !.key = Overwrite(@, data), !.key_len = data_len]]

\* an Unseal whose upper bound is one too high
unseal_parse_result_off_by_one(r, b, p) ==
    LET data_len == Rd16(b.body, 4, b.junk)
        data == RdBytes(b.body, 6, data_len, b.junk)
    IN  IF r # 0 THEN [rc |-> r, payload |-> p]
        ELSE IF data_len < MIN_KEY_SIZE \/ data_len > MAX_KEY_SIZE + 1
        THEN [rc |-> -EFAULT, payload |-> p]
        ELSE IF b.length < TPM_HEADER_SIZE + 6 + data_len
        THEN [rc |-> -EFAULT, payload |-> p]
        ELSE IF p.old_format # 0
        THEN [rc |-> 0,
              payload |-> [p EXCEPT !.key = Overwrite(@, SubSeq(data, 1, data_len - 1)),
                                    !.key_len = data_len - 1,
                                    !.migratable = data[data_len]]]
        ELSE [rc |-> 0,
              payload |-> [p EXCEPT !.key = Overwrite(@, data), !.key_len = data_len]]

\* lines 540-567: [rc, payload] after the secret is validated and copied
unseal_parse_result(r, b, p) ==
    LET data_len == Rd16(b.body, 4, b.junk)
        data == RdBytes(b.body, 6, data_len, b.junk)
    IN  IF r # 0 THEN [rc |-> r, payload |-> p]
        ELSE IF data_len < MIN_KEY_SIZE \/ data_len > MAX_KEY_SIZE
        THEN [rc |-> -EFAULT, payload |-> p]
        ELSE IF b.length < TPM_HEADER_SIZE + 6 + data_len
        THEN [rc |-> -EFAULT, payload |-> p]
        ELSE IF p.old_format # 0
        THEN [rc |-> 0,
              payload |-> [p EXCEPT !.key = Overwrite(@, SubSeq(data, 1, data_len - 1)),
                                    !.key_len = data_len - 1,
                                    !.migratable = data[data_len]]]
        ELSE [rc |-> 0,
              payload |-> [p EXCEPT !.key = Overwrite(@, data), !.key_len = data_len]]

\* lines 540-572
unseal_parse ==
    /\ pc = "unseal_parse"
    /\ \E res \in { unseal_parse_result(rc, buf, payload) } :
           /\ rc' = res.rc
           /\ payload' = res.payload
    /\ chip' = BufDestroy(chip, 1)
    /\ call' = [call EXCEPT !.cmd_done = TRUE]
    /\ pc' = "unseal_flush"
    /\ UNCHANGED << options, blob_len, buf, sized, load, blob_handle >>

\* line 599: tpm2_flush_context(chip, blob_handle)
unseal_flush ==
    /\ pc = "unseal_flush"
    /\ chip' = [chip EXCEPT !.flushes = @ + 1]
    /\ pc' = "unseal_out"
    /\ UNCHANGED << payload, options, rc, blob_len, buf, sized, load, blob_handle, call >>

\* lines 601-604
unseal_out ==
    /\ pc = "unseal_out"
    /\ chip' = PutOps(chip)
    /\ Return(rc)
    /\ UNCHANGED << payload, options, rc, blob_len, buf, sized, load, blob_handle >>

\* the return statement of line 592
unseal_ret ==
    /\ pc = "unseal_ret"
    /\ Return(rc)
    /\ UNCHANGED << payload, options, rc, blob_len, buf, sized, load, blob_handle, chip >>

\* the caller has the result and the callee's locals are gone; the next
\* call may start
call_return ==
    /\ pc = "returned"
    /\ pc' = "idle"
    /\ rc' = 0
    /\ blob_len' = 0
    /\ buf' = NoBuf
    /\ sized' = <<>>
    /\ load' = NoLoad
    /\ blob_handle' = U32Zero
    /\ call' = [call EXCEPT !.options0 = InitOptions, !.payload0 = InitPayload, !.loaded = FALSE,
                             !.cmd_done = FALSE]
    /\ UNCHANGED << payload, options, chip >>

Next ==
    \/ seal_entry \/ seal_get_ops \/ seal_start_session \/ seal_buf_init \/ seal_build
    \/ seal_transmit \/ seal_parse \/ seal_out \/ seal_out_put \/ seal_ret
    \/ unseal_entry \/ unseal_get_ops \/ load_decode \/ load_validate \/ load_start_session
    \/ load_buf_init \/ load_build \/ load_transmit \/ load_out \/ load_ret
    \/ unseal_start_session \/ unseal_buf_init \/ unseal_transmit \/ unseal_parse
    \/ unseal_flush \/ unseal_out \/ unseal_ret
    \/ call_return

Spec == Init /\ [][Next]_vars

---------------------------------------------------------------------------
(* The codec on its own: tpm2_key_encode applied to a parent handle and a  *)
(* well-formed private and public area, tpm2_key_decode applied to the     *)
(* blob it wrote.                                                          *)

\* parent handles seal may encode (never 0)
CodecParents ==
    { U32(0, 0, 0, 1), U32(0, 0, 0, 128), U32(0, 0, 1, 0), U32(64, 0, 0, 7),
      U32(129, 0, 0, 1), U32(255, 255, 255, 255) }

\* sizes of the private and of the public area
CodecPrivSizes == { 0, 1, 124, 125, 126, 240, 252 }
CodecPubSizes == { 0, 30, 126, 224, 252 }

\* what tpm2_key_encode is given as src: TPM2B private, TPM2B public
CodecSrc(pn, qn) == TPM2B(pn, Fill(pn, 1)) \o TPM2B(qn, Fill(qn, 7))

InitCodec ==
    /\ pc = "codec_in"
    /\ payload = InitPayload
    /\ \E kh \in CodecParents, bl \in {0, 20} :
        /\ options = [InitOptions EXCEPT !.keyhandle = kh, !.blobauth_len = bl]
        /\ call = [op |-> "codec", n |-> 0, options0 |-> options, payload0 |-> InitPayload,
                   ret |-> 0, loaded |-> FALSE, cmd_done |-> FALSE,
               status |-> 0, echo |-> FALSE, from_seal |-> FALSE]
    /\ \E pn \in CodecPrivSizes, qn \in CodecPubSizes :
        buf = [length |-> TPM_HEADER_SIZE + 4 + Len(CodecSrc(pn, qn)),
               body |-> BE32(Len(CodecSrc(pn, qn))) \o CodecSrc(pn, qn), junk |-> 0]
    /\ rc = 0
    /\ blob_len = 0
    /\ sized = <<>>
    /\ load = NoLoad
    /\ blob_handle = U32Zero
    /\ chip = [ops |-> 0, sessions |-> 0, bufs |-> 0, gets |-> 0, puts |-> 0, starts |-> 0,
               ends |-> 0, transmits |-> 0, flushes |-> 0, leaks |-> 0]

\* blob_len = tpm2_key_encode(payload, options, src, len), stored as seal
\* stores it
codec_encode ==
    /\ pc = "codec_in"
    /\ \E scratch_ok \in BOOLEAN :
        \E enc \in { tpm2_key_encode(payload.blob, options.blobauth_len, options.keyhandle,
                                     Slice(buf.body, 4, Len(buf.body) - 4), buf.junk,
                                     scratch_ok) } :
            /\ blob_len' = enc.ret
            /\ payload' = seal_store_blob_len([payload EXCEPT !.blob = enc.blob], enc.ret)
    /\ pc' = "codec_encoded"
    /\ UNCHANGED << options, rc, buf, sized, load, blob_handle, chip, call >>

\* rc = tpm2_key_decode(payload, options, &blob) on the encoded blob, with
\* options that name no parent yet
codec_decode ==
    /\ pc = "codec_encoded"
    /\ blob_len > 0
    /\ \E blob_ok \in BOOLEAN :
        \E dec \in { tpm2_key_decode(payload.blob, payload.blob_len, U32Zero, blob_ok) } :
            /\ rc' = dec.ret
            /\ options' = [options EXCEPT !.keyhandle = dec.keyhandle]
            /\ load' = [blob |-> IF dec.alloc THEN "heap" ELSE "none", blob_len |-> 0,
                        heap |-> IF dec.alloc THEN "live" ELSE "none",
                        size |-> dec.size, data |-> dec.data, rd_end |-> 0]
    /\ pc' = "codec_decoded"
    /\ UNCHANGED << payload, blob_len, buf, sized, blob_handle, chip, call >>

NextCodec == codec_encode \/ codec_decode

SpecCodec == InitCodec /\ [][NextCodec]_vars

\* the areas handed to the encoder, and their combined size
CodecInput == Slice(buf.body, 4, Len(buf.body) - 4)

---------------------------------------------------------------------------
(* Properties *)

\* the positions of tpm2_unseal_trusted after tpm2_load_cmd has returned
AfterLoad ==
    { "unseal_out", "unseal_start", "unseal_buf_init", "unseal_transmit", "unseal_parse",
      "unseal_flush", "returned" }

\* C1: in seal and unseal, tpm_try_get_ops succeeds before any session is
\* started, command transmitted or handle flushed; a call that acquired
\* releases exactly once before it returns, on every path; no call releases
\* what it did not acquire.
C1_AcquireBeforeUseReleaseOnce ==
    /\ [](/\ chip.puts <= chip.gets
          /\ chip.gets <= 1
          /\ chip.ops = chip.gets - chip.puts
          /\ (pc = "returned" => chip.puts = chip.gets /\ chip.ops = 0))
    /\ [][(\/ chip'.starts > chip.starts
           \/ chip'.transmits > chip.transmits
           \/ chip'.flushes > chip.flushes) => chip.ops = 1 /\ chip'.ops = 1]_vars

\* C1 witness: an unseal that acquired, ran Load and Unseal, flushed,
\* released and returned
C1_Witness ==
    pc = "returned" /\ call.op = "unseal" /\ chip.gets = 1 /\ chip.puts = 1
    /\ chip.transmits = 2 /\ chip.flushes = 1

\* C2: when seal or unseal returns no authenticated session is open and
\* the call has ended every session it started; a Load that fails returns
\* with as many sessions ended as started.
C2_NoSessionLeftOpen ==
    /\ (pc = "returned" => chip.sessions = 0 /\ chip.starts = chip.ends)
    /\ (pc = "load_ret" /\ rc # 0 => chip.sessions = 0 /\ chip.starts = chip.ends)

\* C2 witness: an unseal that started the Load and the Unseal session and
\* returned an error
C2_Witness ==
    pc = "returned" /\ call.op = "unseal" /\ chip.starts = 2 /\ chip.ends = 2 /\ call.ret # 0

\* C3 (as claimed): once tpm2_load_cmd has returned, the buffer a
\* successful structured decode allocated is no longer allocated.
C3_DecodeBufferReleased ==
    pc \in AfterLoad => load.heap # "live"

\* C4 (as claimed): after any sequence of seal and unseal calls key_len and
\* blob_len are within MAX_KEY_SIZE and MAX_BLOB_SIZE.
C4_LengthsWithinMaxima ==
    payload.key_len <= MAX_KEY_SIZE /\ payload.blob_len <= MAX_BLOB_SIZE

\* C5 (as claimed): neither seal nor unseal changes any field of the
\* caller's options.
C5_OptionsReadOnly ==
    pc # "idle" => options = call.options0

\* C5 (amended): seal changes no field of the options; unseal changes no
\* field but keyhandle, and keyhandle only when the structured decode of
\* the blob succeeded, to the parent the blob names.
C5_OnlyKeyhandleFromDecode ==
    pc # "idle" /\ call.op \in {"seal", "unseal"} =>
        /\ [options EXCEPT !.keyhandle = U32Zero] = [call.options0 EXCEPT !.keyhandle = U32Zero]
        /\ (call.op = "seal" => options = call.options0)
        /\ (load.blob # "heap" => options.keyhandle = call.options0.keyhandle)
        /\ (load.blob = "heap" =>
                options.keyhandle
                    = asn1_ber_decoder(call.payload0.blob, call.payload0.blob_len).parent)

\* C5 witness: an unseal returned with the keyhandle replaced by the
\* blob's parent
C5_Witness ==
    pc = "returned" /\ call.op = "unseal" /\ load.blob = "heap"
    /\ options.keyhandle # call.options0.keyhandle

\* C6: in unseal the handle of a successful Load is flushed exactly once,
\* after tpm2_unseal_cmd has returned and before tpm_put_ops, whatever
\* Unseal returned; after a failed Load nothing is flushed.
C6_FlushExactlyOnceAfterUnseal ==
    /\ [](/\ chip.flushes <= 1
          /\ (pc = "returned" /\ call.op = "unseal" =>
                chip.flushes = IF call.loaded THEN 1 ELSE 0))
    /\ [][chip'.flushes > chip.flushes =>
            call.loaded /\ call.cmd_done /\ chip.ops = 1 /\ chip.puts = 0]_vars

\* C6 witness: Load succeeded, Unseal failed, and the handle was flushed
\* before the return
C6_Witness ==
    pc = "returned" /\ call.op = "unseal" /\ call.loaded /\ call.ret # 0 /\ chip.flushes = 1

\* C7: with keyhandle zero or a hash that is not in tpm2_hash_map, seal
\* returns -EINVAL without tpm_try_get_ops, a session or a transmit, and
\* leaves the payload as it was.
C7_SealRejectsBadArguments ==
    pc # "idle" /\ call.op = "seal"
    /\ (\/ call.options0.keyhandle = U32Zero
        \/ \A i \in 1..Len(tpm2_hash_map) : tpm2_hash_map[i].crypto_id # call.options0.hash) =>
        /\ chip.gets = 0 /\ chip.starts = 0 /\ chip.transmits = 0 /\ chip.ops = 0
        /\ payload = call.payload0
        /\ pc \in {"seal_ret", "returned"}
        /\ (pc = "returned" => call.ret = -EINVAL)

\* C7 witness: seal returned for a supported hash and a zero keyhandle
C7_Witness ==
    pc = "returned" /\ call.op = "seal" /\ call.options0.keyhandle = U32Zero
    /\ call.options0.hash = HASH_ALGO_SHA256 /\ call.ret = -EINVAL

\* the encoder and the decoder have had their memory
CodecNoAllocFailure == blob_len # -ENOMEM /\ rc # -ENOMEM

\* the decoder handed back the parent and the areas the encoder was given
CodecRoundTrip ==
    /\ rc = 0
    /\ options.keyhandle = call.options0.keyhandle
    /\ load.heap = "live"
    /\ load.data = CodecInput
    /\ load.size = Len(CodecInput) + 4

C9_UnsealedKeyLenInRange ==
    pc = "returned" /\ call.op = "unseal" /\ call.ret = 0 =>
        MIN_KEY_SIZE <= payload.key_len /\ payload.key_len <= MAX_KEY_SIZE

\* the secret length an Unseal response declares
UnsealDeclared == Rd16(buf.body, 4, buf.junk)

\* C10: an Unseal response the module answered with success is rejected
\* with -EFAULT, the payload left as it was, when its declared secret
\* length is below MIN_KEY_SIZE or above MAX_KEY_SIZE or the response is
\* shorter than header + 6 + that length; every other response, the
\* lengths MIN_KEY_SIZE and MAX_KEY_SIZE included, is accepted.
C10_UnsealLengthChecks ==
    [][pc = "unseal_parse" /\ rc = 0 =>
        IF \/ UnsealDeclared < MIN_KEY_SIZE
           \/ UnsealDeclared > MAX_KEY_SIZE
           \/ buf.length < TPM_HEADER_SIZE + 6 + UnsealDeclared
        THEN rc' = -EFAULT /\ payload' = payload
        ELSE rc' = 0 /\ payload'.key_len \in {UnsealDeclared, UnsealDeclared - 1}]_vars

\* C10 witness: a response declaring MAX_KEY_SIZE + 1 bytes was rejected
C10_Witness ==
    pc = "unseal_flush" /\ call.cmd_done /\ rc = -EFAULT
    /\ UnsealDeclared = MAX_KEY_SIZE + 1 /\ buf.length >= TPM_HEADER_SIZE + 6 + UnsealDeclared


\* the private and the public length Load reads from the buffer it parses,
\* the bytes outside the buffer reading as junk
LoadPrivateLen(junk) == Rd16(load.data, 0, junk)
LoadPublicLen(junk) == Rd16(load.data, 2 + LoadPrivateLen(junk), junk)

\* C11: Load returns an error, with no session started and no command
\* transmitted, when blob_len < 4, when private_len + 4 > blob_len and when
\* 2 + private_len + 2 + public_len > blob_len.
C11_LoadRejectsBadLengths ==
    [][pc = "load_validate"
       /\ (\/ payload.blob_len < 4
           \/ \A junk \in JunkBytes : LoadPrivateLen(junk) + 4 > payload.blob_len
           \/ \A junk \in JunkBytes :
                2 + LoadPrivateLen(junk) + 2 + LoadPublicLen(junk) > payload.blob_len) =>
        /\ rc' < 0
        /\ pc' = "load_ret"
        /\ chip' = chip /\ chip.starts = 0 /\ chip.transmits = 0]_vars

\* C11 witness: Load returned -E2BIG for a legacy blob whose private length
\* leaves room for the public length field and whose public length does not fit
C11_Witness ==
    pc = "load_ret" /\ rc = -E2BIG /\ load.blob = "payload" /\ chip.starts = 0
    /\ LoadPrivateLen(0) + 4 <= payload.blob_len
    /\ 2 + LoadPrivateLen(0) + 2 + LoadPublicLen(0) > payload.blob_len
    /\ 2 + LoadPrivateLen(0) + 2 <= Len(load.data)

\* the object-attributes word at offset 4 of the public area Load parses,
\* when the buffer holds it
LoadAttrsOffset == 2 + LoadPrivateLen(0) + 2 + 4
LoadAttrs == Slice(load.data, LoadAttrsOffset, 4)

\* C12: a Load that passes its length validation sets payload.migratable
\* to 0 when the attributes word of the public area has FIXED_TPM and
\* FIXED_PARENT both set and to 1 for every other combination of the two
\* bits, whatever the other bits.
C12_MigratableFromAttributes ==
    [][pc = "load_validate" /\ pc' = "load_start" /\ LoadAttrs # <<>> =>
        payload'.migratable
            = IF (LoadAttrs[4] \div 2) % 2 = 1 /\ (LoadAttrs[4] \div 16) % 2 = 1
              THEN 0 ELSE 1]_vars

\* C12 witness: validation passed for an object with FIXED_PARENT but not
\* FIXED_TPM, and the payload is migratable
C12_Witness ==
    pc = "load_start" /\ rc = 0 /\ LoadAttrs # <<>>
    /\ (LoadAttrs[4] \div 2) % 2 = 0 /\ (LoadAttrs[4] \div 16) % 2 = 1
    /\ LoadAttrs[2] # 0 /\ payload.migratable = 1

\* the secret bytes an Unseal response carries
UnsealReturned == Slice(buf.body, 6, UnsealDeclared)

\* C13: on a successful Unseal returning n bytes: with old_format set the
\* key is the first n-1 bytes, key_len is n-1 and migratable is the last
\* byte; with old_format clear the key is all n bytes, key_len is n and
\* migratable keeps the value Load gave it.
C13_UnsealCopiesSecret ==
    [][pc = "unseal_parse" /\ rc = 0 /\ rc' = 0 =>
        /\ Len(UnsealReturned) = UnsealDeclared
        /\ IF payload.old_format # 0
           THEN /\ payload'.key_len = UnsealDeclared - 1
                /\ SubSeq(payload'.key, 1, UnsealDeclared - 1)
                     = SubSeq(UnsealReturned, 1, UnsealDeclared - 1)
                /\ payload'.migratable = UnsealReturned[UnsealDeclared]
           ELSE /\ payload'.key_len = UnsealDeclared
                /\ SubSeq(payload'.key, 1, UnsealDeclared) = UnsealReturned
                /\ payload'.migratable = payload.migratable
        /\ payload'.old_format = payload.old_format
        /\ payload'.blob = payload.blob /\ payload'.blob_len = payload.blob_len]_vars

\* C13 witness: a legacy blob whose secret ends in a migratable flag of 0
\* while Load had derived 1, unsealed with success
C13_Witness ==
    pc = "unseal_flush" /\ call.cmd_done /\ rc = 0 /\ payload.old_format = 1
    /\ UnsealDeclared = MAX_KEY_SIZE /\ payload.key_len = MAX_KEY_SIZE - 1
    /\ payload.migratable = 0 /\ UnsealReturned[UnsealDeclared] = 0
    /\ LoadAttrs # <<>> /\ (LoadAttrs[4] \div 2) % 2 = 0

\* the type field of a TPMKey, and the start of a context tag 0 wrapping a
\* boolean
TypeField == << 6, 6, 103, 129, 5, 10, 1, 5 >>
EmptyAuthHead == << 160, 3, 1, 1 >>

\* whether the blob carries, after its type field, context tag 0 wrapping
\* boolean true
HasEmptyAuth(blob) ==
    \E i \in 3..5 :
        /\ Len(blob) >= i + 12
        /\ SubSeq(blob, i, i + 7) = TypeField
        /\ SubSeq(blob, i + 8, i + 11) = EmptyAuthHead
        /\ blob[i + 12] # 0

\* C14: the blob a successful seal produced contains the emptyAuth tag
\* (context tag 0 wrapping boolean true) if and only if
\* options.blobauth_len is 0.
C14_EmptyAuthIffNoBlobauth ==
    pc = "returned" /\ call.op = "seal" /\ call.ret = 0 =>
        /\ payload.blob[1] = 48
        /\ \E i \in 3..5 : SubSeq(payload.blob, i, i + 7) = TypeField
        /\ (HasEmptyAuth(SubSeq(payload.blob, 1, payload.blob_len))
                <=> call.options0.blobauth_len = 0)

\* C14 witness: a seal with a non-empty blobauth succeeded and its blob
\* has no emptyAuth tag
C14_Witness ==
    pc = "returned" /\ call.op = "seal" /\ call.ret = 0 /\ call.options0.blobauth_len = 20
    /\ payload.blob_len > 40 /\ ~HasEmptyAuth(payload.blob)

\* C15 (as claimed): a positive module status from the Create exchange
\* makes seal return -EINVAL when the status code is TPM2_RC_HASH and
\* -EPERM otherwise; seal returns 0 or a negative value, never a positive
\* one.
C15_SealStatusMapping ==
    pc = "returned" /\ call.op = "seal" =>
        /\ call.ret <= 0
        /\ (call.status > 0 =>
                call.ret = IF tpm2_rc_value(call.status) = TPM2_RC_HASH THEN -EINVAL ELSE -EPERM)

\* the positions inside tpm2_load_cmd after the decode
InLoad ==
    { "load_validate", "load_start", "load_buf_init", "load_build", "load_transmit",
      "load_out", "load_ret" }

\* C16: when the structured decode fails, for whatever reason, Load sets
\* old_format, parses payload.blob in place, allocates nothing and never
\* frees payload.blob; when it succeeds Load parses the allocated copy and
\* leaves old_format as it was.
C16_LegacyFallbackInPlace ==
    /\ (pc = "load_validate" => (rc # 0 <=> load.blob = "payload"))
    /\ (pc \in InLoad \cup AfterLoad /\ call.op = "unseal" /\ load.blob = "payload" =>
            /\ payload.old_format = 1
            /\ load.heap = "none"
            /\ load.data = payload.blob /\ load.size = payload.blob_len
            /\ payload.blob = call.payload0.blob)
    /\ (pc \in InLoad \cup AfterLoad /\ call.op = "unseal" /\ load.blob = "heap" =>
            /\ payload.old_format = call.payload0.old_format
            /\ load.heap \in {"live", "freed"}
            /\ load.data # payload.blob
            /\ load.data
                 = tpm2_key_decode(payload.blob, payload.blob_len, U32Zero, TRUE).data)

\* C16 witness: a legacy blob was loaded in place and Load went through
\* its exit without freeing it
C16_Witness ==
    pc = "load_ret" /\ load.blob = "payload" /\ rc = 0 /\ payload.old_format = 1
    /\ call.payload0.old_format = 0 /\ chip.transmits = 1 /\ load.heap = "none"

\* C17 (as claimed): every byte Load reads from the blob it parses (the two
\* length fields, the attributes word, the bytes appended to the command)
\* lies inside the buffer being parsed: the first payload.blob_len bytes of
\* payload.blob in the legacy case, the bytes decode allocated in the
\* structured case.
C17_LoadReadsInsideBuffer ==
    pc \in InLoad \cup AfterLoad /\ call.op = "unseal" =>
        load.rd_end <= (IF load.blob = "payload" THEN payload.blob_len ELSE load.size)

\* what seal hands to tpm2_key_encode: the bytes after the declared length,
\* and the two sizes the encoder reads from them
SealSrc == Slice(buf.body, 4, Len(buf.body) - 4)
SealPrivSize == Rd16(SealSrc, 0, buf.junk)
SealPubSize == Rd16(SealSrc, enc_priv_len(SealSrc, buf.junk), buf.junk)

\* C18 (as claimed): for a Create response that passed seal's length
\* checks, the private and the public area the encoder reads lie within
\* the declared blob_len bytes, 2 + private size + 2 + public size <=
\* blob_len, and neither size + 2 wraps around in 16 bits.
C18_EncoderReadsWithinDeclared ==
    pc = "seal_out" /\ call.status = 0 /\ chip.transmits = 1 /\ rc = 0 /\ blob_len > 0 =>
        /\ SealPrivSize + 2 < 65536
        /\ SealPubSize + 2 < 65536
        /\ 2 + SealPrivSize + 2 + SealPubSize <= tpm_buf_read_u32(buf).value

\* C19: seal returns 0 only if the Create exchange and the encoder both
\* succeeded, and then payload.blob_len is the length the encoder
\* returned, 0 < blob_len <= MAX_BLOB_SIZE; when the encoder fails seal
\* returns the encoder's negative error and leaves payload.blob_len as it
\* was.
C19_SealSuccessMeansEncoded ==
    pc = "returned" /\ call.op = "seal" =>
        /\ (call.ret = 0 =>
                /\ chip.transmits = 1 /\ call.status = 0
                /\ blob_len > 0 /\ blob_len <= MAX_BLOB_SIZE
                /\ payload.blob_len = blob_len
                /\ Len(payload.blob) >= blob_len)
        /\ (blob_len < 0 =>
                /\ call.ret = blob_len
                /\ payload.blob_len = call.payload0.blob_len)

\* C19 witness: the Create exchange succeeded, the encoder failed for want
\* of room in the blob, and seal returned its error
C19_Witness ==
    pc = "returned" /\ call.op = "seal" /\ call.status = 0 /\ chip.transmits = 1
    /\ blob_len = -EINVAL /\ call.ret = -EINVAL /\ payload.blob_len = 0

\* C20: when seal was called with payload.migratable = m and the module
\* returned the attributes word seal sent, Load of the blob that seal
\* produced sets payload.migratable = m, for both values of m, with and
\* without a policy digest.
C20_SealLoadAgreeOnMigratable ==
    [][pc = "load_validate" /\ call.from_seal /\ load.blob = "heap" /\ pc' = "load_start" =>
        /\ payload'.migratable = call.payload0.migratable
        /\ LoadAttrs # <<>>
        /\ LoadAttrs[4] % 64
             = IF call.payload0.migratable # 0 THEN 0
               ELSE TPM2_OA_FIXED_TPM + TPM2_OA_FIXED_PARENT]_vars

\* C20 witness: Load has parsed the blob of a seal of a non-migratable key
\* under a policy digest, and the payload is not migratable
C20_Witness ==
    pc = "load_start" /\ call.from_seal /\ load.blob = "heap" /\ rc = 0
    /\ call.payload0.migratable = 0 /\ payload.migratable = 0
    /\ LoadAttrs = BE32(TPM2_OA_FIXED_TPM + TPM2_OA_FIXED_PARENT)
=============================================================================
